---- MODULE Spec2Model ----
(***************************************************************************)
(* Model of scripts/generate_pdf.py: the LaTeX escaper (latex_escape,      *)
(* backslash_escape, escape_yaml) and the main() pipeline.                 *)
(*                                                                         *)
(* A Python str is a sequence of one-character strings.  A Document Value  *)
(* is a tagged record:                                                     *)
(*   [tag |-> "str",  s |-> <<chars>>]      str                            *)
(*   [tag |-> "int",  n |-> 30]             int                            *)
(*   [tag |-> "bool", b |-> TRUE]           bool                           *)
(*   [tag |-> "null"]                       None                           *)
(*   [tag |-> "list", elems |-> <<values>>] list                           *)
(*   [tag |-> "dict", map |-> [keys -> values]] dict                       *)
(***************************************************************************)
EXTENDS Integers, Sequences, FiniteSets, TLC

VARIABLES
    pc,             \* position of main() / of the driver of the pure functions
    raw,            \* the value as loaded (history: cv_data before line 113)
    cv_data,        \* main's cv_data
    twice,          \* escape_yaml applied to an already escaped value
    tex_file,       \* output/resumaker.tex: "not written" (untouched by this
                    \* run), "emptied" (opened "w" by this run: truncated,
                    \* the rendered text not, or not all, in it), "written"
    writes,         \* number of completed writes of tex_file by this run
    compiler_calls, \* number of subprocess.run calls by this run
    result,         \* <<>> or <<CompletedProcess>>
    printed,        \* the print calls main completed, in order
    outcome,        \* "running", "returned", "SystemExit", "uncaught"
    exit_code,      \* the process's exit status once it has ended
    text0,          \* substitution-order driver: the input text
    text,           \* substitution-order driver: the text so far
    applied,        \* substitution-order driver: metacharacters substituted so far
    table_order,    \* substitution-order driver: the order so far is the table's
    braces_first    \* substitution-order driver: no brace came after ~ or ^

vars == <<pc, raw, cv_data, twice, tex_file, writes, compiler_calls, result,
          printed, outcome, exit_code, text0, text, applied, table_order,
          braces_first>>

(***************************************************************************)
(* Bounds                                                                  *)
(***************************************************************************)
MaxLen == 2

MaxDepth == 2

MaxOrderLen == 2

(***************************************************************************)
(* Module-level values of generate_pdf.py                                  *)
(***************************************************************************)
BS == "\\"

MetaChars == {"&", "%", "$", "#", "_", "{", "}", "~", "^"}

\* The table with '~' rendered in math mode: its replacement holds another
\* metacharacter of the table.
LATEX_REPLACEMENTS_sim ==
    [c \in MetaChars |->
        CASE c = "&" -> <<BS, "&">>
          [] c = "%" -> <<BS, "%">>
          [] c = "$" -> <<BS, "$">>
          [] c = "#" -> <<BS, "#">>
          [] c = "_" -> <<BS, "_">>
          [] c = "{" -> <<BS, "{">>
          [] c = "}" -> <<BS, "}">>
          [] c = "~" -> <<"$", BS, BS, "s", "i", "m", "$">>
          [] c = "^" -> <<BS, BS, "t", "e", "x", "t", "a", "s", "c", "i", "i",
                          "c", "i", "r", "c", "u", "m", "{", "}">>]

\* The table with '~' mapped to a short escape like the first seven entries.
LATEX_REPLACEMENTS_short ==
    [c \in MetaChars |->
        CASE c = "&" -> <<BS, "&">>
          [] c = "%" -> <<BS, "%">>
          [] c = "$" -> <<BS, "$">>
          [] c = "#" -> <<BS, "#">>
          [] c = "_" -> <<BS, "_">>
          [] c = "{" -> <<BS, "{">>
          [] c = "}" -> <<BS, "}">>
          [] c = "~" -> <<BS, "~">>
          [] c = "^" -> <<BS, BS, "t", "e", "x", "t", "a", "s", "c", "i", "i",
                          "c", "i", "r", "c", "u", "m", "{", "}">>]

\* LATEX_REPLACEMENTS: the raw (r'...') replacement templates, as written.
LATEX_REPLACEMENTS ==
    [c \in MetaChars |->
        CASE c = "&" -> <<BS, "&">>
          [] c = "%" -> <<BS, "%">>
          [] c = "$" -> <<BS, "$">>
          [] c = "#" -> <<BS, "#">>
          [] c = "_" -> <<BS, "_">>
          [] c = "{" -> <<BS, "{">>
          [] c = "}" -> <<BS, "}">>
          [] c = "~" -> <<BS, BS, "t", "e", "x", "t", "a", "s", "c", "i", "i",
                          "t", "i", "l", "d", "e", "{", "}">>
          [] c = "^" -> <<BS, BS, "t", "e", "x", "t", "a", "s", "c", "i", "i",
                          "c", "i", "r", "c", "u", "m", "{", "}">>]

\* The iteration order of LATEX_REPLACEMENTS.items(): insertion order.
ReplOrder == <<"&", "%", "$", "#", "_", "{", "}", "~", "^">>

BACKSLASH_TOKEN ==
    <<"<", "<", "<", "U", "N", "I", "Q", "U", "E", "-", "B", "A", "C", "K",
      "S", "L", "A", "S", "H", "-", "T", "O", "K", "E", "N", ">", ">", ">">>

\* r'\textbackslash{}', the second argument of data.replace (a plain string,
\* not a regex template).
TEXTBACKSLASH ==
    <<BS, "t", "e", "x", "t", "b", "a", "c", "k", "s", "l", "a", "s", "h",
      "{", "}">>

(***************************************************************************)
(* Document Values                                                         *)
(***************************************************************************)
Str(s) == [tag |-> "str", s |-> s]

Int30 == [tag |-> "int", n |-> 30]

BoolTrue == [tag |-> "bool", b |-> TRUE]

Null == [tag |-> "null"]

List(xs) == [tag |-> "list", elems |-> xs]

Dict(m) == [tag |-> "dict", map |-> m]

(***************************************************************************)
(* Library functions used by the escaper                                   *)
(***************************************************************************)
RECURSIVE FlattenRange(_, _, _)
FlattenRange(ps, lo, hi) ==
    IF lo > hi THEN <<>>
    ELSE IF lo = hi THEN ps[lo]
    ELSE LET mid == (lo + hi) \div 2
         IN  FlattenRange(ps, lo, mid) \o FlattenRange(ps, mid + 1, hi)

\* ''.join(ps)
Flatten(ps) == FlattenRange(ps, 1, Len(ps))

MatchAt(old, t, i) ==
    /\ i >= 1
    /\ i + Len(old) - 1 <= Len(t)
    /\ \A j \in 1..Len(old) : t[i + j - 1] = old[j]

\* An occurrence of old starts at i and is the one a left-to-right scan
\* replaces: no replaced occurrence that starts before i reaches i.
RECURSIVE Replaced(_, _, _)
Replaced(old, t, i) ==
    /\ MatchAt(old, t, i)
    /\ \A j \in (i - Len(old) + 1)..(i - 1) : ~Replaced(old, t, j)

\* str.replace(old, new) for a non-empty old: leftmost, non-overlapping.
str_replace(old, new, t) ==
    Flatten([i \in 1..Len(t) |->
                IF Replaced(old, t, i) THEN new
                ELSE IF \E j \in (i - Len(old) + 1)..(i - 1) : Replaced(old, t, j)
                     THEN <<>>
                     ELSE <<t[i]>>])

RECURSIVE ExpandFrom(_, _)
ExpandFrom(repl, i) ==
    IF i > Len(repl) THEN <<>>
    ELSE IF repl[i] = BS /\ i < Len(repl) /\ repl[i + 1] = BS
         THEN <<BS>> \o ExpandFrom(repl, i + 2)
         ELSE <<repl[i]>> \o ExpandFrom(repl, i + 1)

\* What re.sub makes of a replacement template: a doubled backslash is one
\* backslash; a backslash before a character that is no letter or digit
\* stays with that character.  (The table holds no other escape.)
expand_template(repl) == ExpandFrom(repl, 1)

\* re.sub(rf'(?<!\\){re.escape(char)}', repl, t): every occurrence of char
\* whose preceding character in t is not a backslash becomes the expanded
\* template.
re_sub(char, repl, t) ==
    LET new == expand_template(repl)
    IN  Flatten([i \in 1..Len(t) |->
                    IF t[i] = char /\ (i = 1 \/ t[i - 1] # BS)
                    THEN new
                    ELSE <<t[i]>>])

(***************************************************************************)
(* The escaper                                                             *)
(***************************************************************************)
RECURSIVE latex_escape_loop(_, _)
\* for char, replacement in LATEX_REPLACEMENTS.items(): text = re.sub(...)
latex_escape_loop(t, i) ==
    IF i > Len(ReplOrder) THEN t
    ELSE latex_escape_loop(
             re_sub(ReplOrder[i], LATEX_REPLACEMENTS[ReplOrder[i]], t), i + 1)

\* latex_escape with the loop body never run.
latex_escape_none(v) == v

latex_escape(v) ==
    IF v.tag # "str" THEN v
    ELSE Str(latex_escape_loop(v.s, 1))

RECURSIVE backslash_escape(_)
\* backslash_escape that leaves the token in place.
backslash_escape_keep(d) == d

backslash_escape(d) ==
    IF d.tag = "dict"
    THEN Dict([k \in DOMAIN d.map |-> backslash_escape(d.map[k])])
    ELSE IF d.tag = "list"
    THEN List([i \in 1..Len(d.elems) |-> backslash_escape(d.elems[i])])
    ELSE IF d.tag = "str"
    THEN Str(str_replace(BACKSLASH_TOKEN, TEXTBACKSLASH, d.s))
    ELSE d

RECURSIVE escape_yaml(_)
\* escape_yaml that loses a sequence's last element.
escape_yaml_drop(d) ==
    IF d.tag = "dict"
    THEN backslash_escape(Dict([k \in DOMAIN d.map |-> escape_yaml(d.map[k])]))
    ELSE IF d.tag = "list"
    THEN backslash_escape(
             List([i \in 1..(Len(d.elems) - 1) |-> escape_yaml(d.elems[i])]))
    ELSE IF d.tag = "str"
    THEN latex_escape(Str(str_replace(<<BS>>, BACKSLASH_TOKEN, d.s)))
    ELSE d

\* escape_yaml that formats an integer leaf as text.
escape_yaml_coerce(d) ==
    IF d.tag = "dict"
    THEN backslash_escape(Dict([k \in DOMAIN d.map |-> escape_yaml(d.map[k])]))
    ELSE IF d.tag = "list"
    THEN backslash_escape(
             List([i \in 1..Len(d.elems) |-> escape_yaml(d.elems[i])]))
    ELSE IF d.tag = "str"
    THEN latex_escape(Str(str_replace(<<BS>>, BACKSLASH_TOKEN, d.s)))
    ELSE IF d.tag = "int"
    THEN Str(<<"3", "0">>)
    ELSE d

escape_yaml(d) ==
    IF d.tag = "dict"
    THEN backslash_escape(Dict([k \in DOMAIN d.map |-> escape_yaml(d.map[k])]))
    ELSE IF d.tag = "list"
    THEN backslash_escape(
             List([i \in 1..Len(d.elems) |-> escape_yaml(d.elems[i])]))
    ELSE IF d.tag = "str"
    THEN latex_escape(Str(str_replace(<<BS>>, BACKSLASH_TOKEN, d.s)))
    ELSE d

(***************************************************************************)
(* The inputs: strings over Alphabet up to MaxLen and the strings the      *)
(* documentation uses, as leaves of containers nested up to MaxDepth.      *)
(***************************************************************************)
Alphabet == MetaChars \cup {BS, "a", "<"}

BoundedStrings(n) == UNION {[1..k -> Alphabet] : k \in 0..n}

Ex100 == <<"1", "0", "0", "%", " ", "&", " ", "d", "o", "n", "e">>

ExPath == <<"C", ":", BS, "p", "a", "t", "h">>

Ex50 == <<"5", "0", BS, "%">>

ExToken == <<"a">> \o BACKSLASH_TOKEN

ExTokenAmp == BACKSLASH_TOKEN \o <<"&">>

Strings == BoundedStrings(MaxLen) \cup {Ex100, ExPath, Ex50, ExToken, ExTokenAmp}

Leaves == {Str(s) : s \in Strings} \cup {Int30, BoolTrue, Null}

\* A leaf wrapped d times, sequences and mappings alternating, the
\* outermost container a sequence (outer = "list") or a mapping.
RECURSIVE Level(_, _)
Level(d, outer) ==
    IF d = 0 THEN Leaves
    ELSE IF outer = "list"
    THEN {List(<<v, Int30>>) : v \in Level(d - 1, "dict")}
    ELSE {Dict(("k_%" :> v) @@ ("note" :> Null)) : v \in Level(d - 1, "list")}

Fixed ==
    {List(<<>>), Dict(<<>>),
     Dict(("age" :> Int30) @@ ("active" :> BoolTrue) @@ ("note" :> Null)),
     Dict("a" :> Str(Ex100)), Dict("a" :> Str(ExPath)), Dict("a" :> Str(Ex50)),
     List(<<Str(<<"~">>), Str(<<BS>>), Str(<<>>), BoolTrue>>),
     Dict(("e" :> List(<<>>)) @@ ("f" :> Dict(<<>>)) @@ ("g" :> Str(<<>>))),
     Dict("jobs" :> List(<<Dict(("title" :> Str(<<"R", "&", "D", "_", "{", "x", "}">>))
                                @@ ("years" :> Int30)),
                           Dict("path" :> Str(ExPath))>>))}

Values ==
    Fixed \cup UNION {Level(d, "list") \cup Level(d, "dict") : d \in 0..MaxDepth}

Consumed == [tag |-> "consumed"]

NoText == <<>>

(***************************************************************************)
(* main(): one action per statement; a collaborator's exception is not     *)
(* caught anywhere in main and ends the run.                               *)
(***************************************************************************)
escaperIdle == <<twice, text0, text, applied, table_order, braces_first>>

Stdouts == {<<"o", "u", "t">>, <<>>}

Stderrs == {<<"e", "r", "r">>, <<>>}

ReturnCodes == {0, 1, 2}

FailedHeader == <<"LaTeX compilation failed:", "\n">>

InitMain ==
    /\ pc = "load"
    /\ raw = Consumed
    /\ cv_data = Consumed
    /\ twice = Consumed
    /\ tex_file = "not written"
    /\ writes = 0
    /\ compiler_calls = 0
    /\ result = <<>>
    /\ printed = <<>>
    /\ outcome = "running"
    /\ exit_code = 0
    /\ text0 = NoText
    /\ text = NoText
    /\ applied = {}
    /\ table_order = TRUE
    /\ braces_first = TRUE

\* The exit status of the process when it ends with status st: flushing
\* at interpreter exit can fail for standard output when something was
\* printed (out) and for standard error when it holds the traceback of an
\* uncaught exception; the status is then 120.
ExitStatuses(st, out, traceback) ==
    IF out # <<>> \/ traceback THEN {st, 120} ELSE {st}

\* An exception propagates out of main and the interpreter ends the run:
\* raised by open/yaml.safe_load, get_template, render, os.makedirs,
\* open(tex_path, "w") (the file untouched), f.write or the close of the
\* with block (the file already truncated by the open), subprocess.run
\* (pdflatex not found, its output not decodable), or one of the three
\* print calls (standard output unable to take the text).
Raises ==
    /\ pc \in {"load", "get_template", "render", "makedirs", "write",
               "write_body", "compile", "print_header", "print_stdout",
               "print_stderr"}
    /\ pc' = "end"
    /\ outcome' = "uncaught"
    /\ exit_code' \in ExitStatuses(1, printed, TRUE)
    /\ raw' = Consumed
    /\ cv_data' = Consumed
    /\ compiler_calls' = IF pc = "compile" THEN compiler_calls + 1
                         ELSE compiler_calls
    /\ UNCHANGED <<tex_file, writes, result, printed>>
    /\ UNCHANGED escaperIdle

LoadYaml ==
    /\ pc = "load"
    /\ \E v \in Values :
        /\ raw' = v
        /\ cv_data' = v
    /\ pc' = "escape"
    /\ UNCHANGED <<tex_file, writes, compiler_calls, result, printed, outcome,
                   exit_code>>
    /\ UNCHANGED escaperIdle

EscapeData ==
    /\ pc = "escape"
    /\ cv_data' = escape_yaml(cv_data)
    /\ pc' = "get_template"
    /\ UNCHANGED <<raw, tex_file, writes, compiler_calls, result, printed,
                   outcome, exit_code>>
    /\ UNCHANGED escaperIdle

GetTemplate ==
    /\ pc = "get_template"
    /\ pc' = "render"
    /\ UNCHANGED <<raw, cv_data, tex_file, writes, compiler_calls, result,
                   printed, outcome, exit_code>>
    /\ UNCHANGED escaperIdle

\* template.render(cv_data): cv_data is read here for the last time.
Render ==
    /\ pc = "render"
    /\ pc' = "makedirs"
    /\ raw' = Consumed
    /\ cv_data' = Consumed
    /\ UNCHANGED <<tex_file, writes, compiler_calls, result, printed, outcome,
                   exit_code>>
    /\ UNCHANGED escaperIdle

MakeDirs ==
    /\ pc = "makedirs"
    /\ pc' = "write"
    /\ UNCHANGED <<raw, cv_data, tex_file, writes, compiler_calls, result,
                   printed, outcome, exit_code>>
    /\ UNCHANGED escaperIdle

\* open(tex_path, "w") returns: the file exists and is empty.
OpenTex ==
    /\ pc = "write"
    /\ tex_file' = "emptied"
    /\ pc' = "write_body"
    /\ UNCHANGED <<raw, cv_data, writes, compiler_calls, result, printed,
                   outcome, exit_code>>
    /\ UNCHANGED escaperIdle

\* f.write(output_tex) and the close of the with block succeed.
WriteTex ==
    /\ pc = "write_body"
    /\ tex_file' = "written"
    /\ writes' = writes + 1
    /\ pc' = "compile"
    /\ UNCHANGED <<raw, cv_data, compiler_calls, result, printed, outcome,
                   exit_code>>
    /\ UNCHANGED escaperIdle

\* A driver that runs the compiler again when it fails.
RunCompiler_retry ==
    /\ pc = "compile"
    /\ \E rc \in ReturnCodes, out \in Stdouts, err \in Stderrs :
        /\ result' = <<[returncode |-> rc, stdout |-> out, stderr |-> err]>>
        /\ compiler_calls' = IF rc # 0 THEN compiler_calls + 2
                             ELSE compiler_calls + 1
    /\ pc' = "check"
    /\ UNCHANGED <<raw, cv_data, tex_file, writes, printed, outcome, exit_code>>
    /\ UNCHANGED escaperIdle

RunCompiler ==
    /\ pc = "compile"
    /\ \E rc \in ReturnCodes, out \in Stdouts, err \in Stderrs :
        result' = <<[returncode |-> rc, stdout |-> out, stderr |-> err]>>
    /\ compiler_calls' = compiler_calls + 1
    /\ pc' = "check"
    /\ UNCHANGED <<raw, cv_data, tex_file, writes, printed, outcome, exit_code>>
    /\ UNCHANGED escaperIdle

\* result.returncode != 0: the failure branch is entered.
CompileFailed ==
    /\ pc = "check"
    /\ result[1].returncode # 0
    /\ pc' = "print_header"
    /\ UNCHANGED <<raw, cv_data, tex_file, writes, compiler_calls, result,
                   printed, outcome, exit_code>>
    /\ UNCHANGED escaperIdle

\* print("LaTeX compilation failed:\n")
PrintHeader ==
    /\ pc = "print_header"
    /\ printed' = Append(printed, FailedHeader \o <<"\n">>)
    /\ pc' = "print_stdout"
    /\ UNCHANGED <<raw, cv_data, tex_file, writes, compiler_calls, result,
                   outcome, exit_code>>
    /\ UNCHANGED escaperIdle

\* print(result.stdout)
PrintStdout ==
    /\ pc = "print_stdout"
    /\ printed' = Append(printed, result[1].stdout \o <<"\n">>)
    /\ pc' = "print_stderr"
    /\ UNCHANGED <<raw, cv_data, tex_file, writes, compiler_calls, result,
                   outcome, exit_code>>
    /\ UNCHANGED escaperIdle

\* The failure branch that forgets standard error.
PrintStderr_skip ==
    /\ pc = "print_stderr"
    /\ pc' = "exit"
    /\ UNCHANGED <<raw, cv_data, tex_file, writes, compiler_calls, result,
                   printed, outcome, exit_code>>
    /\ UNCHANGED escaperIdle

\* print(result.stderr)
PrintStderr ==
    /\ pc = "print_stderr"
    /\ printed' = Append(printed, result[1].stderr \o <<"\n">>)
    /\ pc' = "exit"
    /\ UNCHANGED <<raw, cv_data, tex_file, writes, compiler_calls, result,
                   outcome, exit_code>>
    /\ UNCHANGED escaperIdle

\* raise SystemExit(1)
ExitOne ==
    /\ pc = "exit"
    /\ outcome' = "SystemExit"
    /\ exit_code' \in ExitStatuses(1, printed, FALSE)
    /\ pc' = "end"
    /\ UNCHANGED <<raw, cv_data, tex_file, writes, compiler_calls, result,
                   printed>>
    /\ UNCHANGED escaperIdle

\* result.returncode == 0: main returns.
CompileOk ==
    /\ pc = "check"
    /\ result[1].returncode = 0
    /\ outcome' = "returned"
    /\ pc' = "end"
    /\ UNCHANGED <<raw, cv_data, tex_file, writes, compiler_calls, result,
                   printed, exit_code>>
    /\ UNCHANGED escaperIdle

Next ==
    \/ LoadYaml
    \/ EscapeData
    \/ GetTemplate
    \/ Render
    \/ MakeDirs
    \/ OpenTex
    \/ WriteTex
    \/ RunCompiler
    \/ CompileFailed
    \/ PrintHeader
    \/ PrintStdout
    \/ PrintStderr
    \/ ExitOne
    \/ CompileOk
    \/ Raises

Spec == InitMain /\ [][Next]_vars

(***************************************************************************)
(* The escaper applied to its own output                                   *)
(***************************************************************************)
InitTwice ==
    /\ pc = "once"
    /\ raw \in Values
    /\ cv_data = raw
    /\ twice = Consumed
    /\ tex_file = "not written"
    /\ writes = 0
    /\ compiler_calls = 0
    /\ result = <<>>
    /\ printed = <<>>
    /\ outcome = "running"
    /\ exit_code = 0
    /\ text0 = NoText
    /\ text = NoText
    /\ applied = {}
    /\ table_order = TRUE
    /\ braces_first = TRUE

mainIdle == <<tex_file, writes, compiler_calls, result, printed, outcome,
              exit_code>>

orderIdle == <<text0, text, applied, table_order, braces_first>>

EscapeOnce ==
    /\ pc = "once"
    /\ cv_data' = escape_yaml(raw)
    /\ pc' = "again"
    /\ UNCHANGED <<raw, twice>>
    /\ UNCHANGED mainIdle
    /\ UNCHANGED orderIdle

EscapeAgain ==
    /\ pc = "again"
    /\ twice' = escape_yaml(cv_data)
    /\ pc' = "escaped twice"
    /\ UNCHANGED <<raw, cv_data>>
    /\ UNCHANGED mainIdle
    /\ UNCHANGED orderIdle

NextTwice ==
    \/ EscapeOnce
    \/ EscapeAgain

SpecTwice == InitTwice /\ [][NextTwice]_vars

(***************************************************************************)
(* The substitutions of latex_escape's loop, one per step, in any order    *)
(***************************************************************************)
OrderAlphabet == {"&", "%", "{", "}", "~", "^", BS, "a"}

InitOrder ==
    /\ pc = "substitute"
    /\ raw = Consumed
    /\ cv_data = Consumed
    /\ twice = Consumed
    /\ tex_file = "not written"
    /\ writes = 0
    /\ compiler_calls = 0
    /\ result = <<>>
    /\ printed = <<>>
    /\ outcome = "running"
    /\ exit_code = 0
    /\ text0 \in UNION {[1..k -> OrderAlphabet] : k \in 0..MaxOrderLen}
    /\ text = text0
    /\ applied = {}
    /\ table_order = TRUE
    /\ braces_first = TRUE

\* One iteration of the loop body (line 46) for a metacharacter not yet done.
Substitute ==
    /\ pc = "substitute"
    /\ \E c \in MetaChars \ applied :
        /\ text' = re_sub(c, LATEX_REPLACEMENTS[c], text)
        /\ applied' = applied \cup {c}
        /\ table_order' = (table_order /\ c = ReplOrder[Cardinality(applied) + 1])
        /\ braces_first' =
               (braces_first /\ ~(c \in {"{", "}"} /\ applied \cap {"~", "^"} # {}))
    /\ pc' = IF applied' = MetaChars THEN "substituted" ELSE pc
    /\ UNCHANGED <<raw, cv_data, twice, text0>>
    /\ UNCHANGED mainIdle

\* latex_escape returns the text.
ReturnText ==
    /\ pc = "substituted"
    /\ pc' = "returned"
    /\ UNCHANGED <<raw, cv_data, twice>>
    /\ UNCHANGED mainIdle
    /\ UNCHANGED orderIdle

NextOrder ==
    \/ Substitute
    \/ ReturnText

SpecOrder == InitOrder /\ [][NextOrder]_vars

(***************************************************************************)
(* Vocabulary of the properties                                            *)
(***************************************************************************)
IsContainer(v) == v.tag \in {"list", "dict"}

IsEmptyContainer(v) ==
    \/ v.tag = "list" /\ Len(v.elems) = 0
    \/ v.tag = "dict" /\ DOMAIN v.map = {}

IsScalar(v) == v.tag \in {"int", "bool", "null"}

Contains(t, sub) == \E i \in 1..Len(t) : MatchAt(sub, t, i)

HasBackslash(t) == \E i \in 1..Len(t) : t[i] = BS

HasMeta(t) == \E i \in 1..Len(t) : t[i] \in MetaChars

\* The values at the same position of three values, down to the first
\* position where they are not containers of one shape.
RECURSIVE LeafTriples(_, _, _)
LeafTriples(a, b, c) ==
    IF /\ a.tag = "list" /\ b.tag = "list" /\ c.tag = "list"
       /\ Len(a.elems) > 0
       /\ Len(a.elems) = Len(b.elems) /\ Len(a.elems) = Len(c.elems)
    THEN UNION {LeafTriples(a.elems[i], b.elems[i], c.elems[i]) :
                    i \in 1..Len(a.elems)}
    ELSE IF /\ a.tag = "dict" /\ b.tag = "dict" /\ c.tag = "dict"
            /\ DOMAIN a.map # {}
            /\ DOMAIN a.map = DOMAIN b.map /\ DOMAIN a.map = DOMAIN c.map
    THEN UNION {LeafTriples(a.map[k], b.map[k], c.map[k]) : k \in DOMAIN a.map}
    ELSE {<<a, b, c>>}

LeafPairs(a, b) == {<<t[1], t[2]>> : t \in LeafTriples(a, b, b)}

StrPairs(a, b) == {p \in LeafPairs(a, b) : p[1].tag = "str"}

RECURSIVE SameShape(_, _)
SameShape(a, b) ==
    IF a.tag = "dict"
    THEN /\ b.tag = "dict"
         /\ DOMAIN b.map = DOMAIN a.map
         /\ \A k \in DOMAIN a.map : SameShape(a.map[k], b.map[k])
    ELSE IF a.tag = "list"
    THEN /\ b.tag = "list"
         /\ Len(b.elems) = Len(a.elems)
         /\ \A i \in 1..Len(a.elems) : SameShape(a.elems[i], b.elems[i])
    ELSE IF a.tag = "str" THEN b.tag = "str"
    ELSE b.tag = a.tag

RECURSIVE AllStrings(_)
AllStrings(v) ==
    IF v.tag = "dict" THEN UNION {AllStrings(v.map[k]) : k \in DOMAIN v.map}
    ELSE IF v.tag = "list"
    THEN UNION {AllStrings(v.elems[i]) : i \in 1..Len(v.elems)}
    ELSE IF v.tag = "str" THEN {v.s}
    ELSE {}

\* The table of the documentation, entry by entry, as the text it stands for.
TableEntry(c) ==
    CASE c = "&" -> <<BS, "&">>
      [] c = "%" -> <<BS, "%">>
      [] c = "$" -> <<BS, "$">>
      [] c = "#" -> <<BS, "#">>
      [] c = "_" -> <<BS, "_">>
      [] c = "{" -> <<BS, "{">>
      [] c = "}" -> <<BS, "}">>
      [] c = "~" -> <<BS, "t", "e", "x", "t", "a", "s", "c", "i", "i", "t", "i",
                      "l", "d", "e", "{", "}">>
      [] c = "^" -> <<BS, "t", "e", "x", "t", "a", "s", "c", "i", "i", "c", "i",
                      "r", "c", "u", "m", "{", "}">>

\* Each metacharacter replaced by its entry, every other character in place.
PerChar(t) ==
    Flatten([i \in 1..Len(t) |->
                IF t[i] \in MetaChars THEN TableEntry(t[i]) ELSE <<t[i]>>])

\* main has run line 113 and nothing after it.
Escaped == pc = "get_template"

(***************************************************************************)
(* C1 (as stated): in the value main has just escaped, every string leaf   *)
(* of a mapping or sequence that holds no backslash is its input with each *)
(* metacharacter replaced by its table entry and every other character     *)
(* copied in place.                                                        *)
(***************************************************************************)
C1_AsStated ==
    (Escaped /\ IsContainer(raw)) =>
        \A p \in StrPairs(raw, cv_data) :
            ~HasBackslash(p[1].s) => p[2] = Str(PerChar(p[1].s))

(***************************************************************************)
(* C1 (amended): the same, for the string leaves that hold neither a       *)
(* backslash nor the text of the sentinel token.                           *)
(***************************************************************************)
C1_TableSubstitution ==
    (Escaped /\ IsContainer(raw)) =>
        \A p \in StrPairs(raw, cv_data) :
            (~HasBackslash(p[1].s) /\ ~Contains(p[1].s, BACKSLASH_TOKEN)) =>
                p[2] = Str(PerChar(p[1].s))

C1_Witness ==
    /\ Escaped
    /\ raw = Dict("a" :> Str(Ex100))
    /\ cv_data = Dict("a" :> Str(<<"1", "0", "0", BS, "%", " ", BS, "&", " ",
                                   "d", "o", "n", "e">>))

Alone(seg) == escape_yaml(List(<<Str(seg)>>)).elems[1].s

RECURSIVE Stretches(_, _, _)
Stretches(t, i, seg) ==
    IF i > Len(t) THEN Alone(seg)
    ELSE IF t[i] = BS
         THEN Alone(seg) \o TEXTBACKSLASH \o Stretches(t, i + 1, <<>>)
         ELSE Stretches(t, i + 1, Append(seg, t[i]))

(***************************************************************************)
(* C2: in the value main has just escaped, every string leaf of a mapping  *)
(* or sequence whose input does not hold the sentinel text is the input    *)
(* with each backslash rendered as \textbackslash{} in its place and each  *)
(* backslash-free stretch rendered as the escaper renders that stretch on  *)
(* its own; no sentinel token is left in it.                               *)
(***************************************************************************)
C2_BackslashRendering ==
    (Escaped /\ IsContainer(raw)) =>
        \A p \in StrPairs(raw, cv_data) :
            ~Contains(p[1].s, BACKSLASH_TOKEN) =>
                /\ p[2].tag = "str"
                /\ p[2].s = Stretches(p[1].s, 1, <<>>)
                /\ ~Contains(p[2].s, BACKSLASH_TOKEN)

C2_Witness ==
    /\ Escaped
    /\ raw = Dict("a" :> Str(ExPath))
    /\ cv_data = Dict("a" :> Str(<<"C", ":">> \o TEXTBACKSLASH
                                     \o <<"p", "a", "t", "h">>))

IsPreEscaped(t) ==
    /\ Len(t) >= 2
    /\ t[Len(t) - 1] = BS
    /\ t[Len(t)] \in MetaChars
    /\ \A i \in 1..(Len(t) - 2) : t[i] \notin MetaChars \cup {BS}

(***************************************************************************)
(* C3 (as stated): in the value main has just escaped, a string leaf of a  *)
(* mapping that is plain text followed by a backslash and a metacharacter  *)
(* comes out unchanged.                                                    *)
(***************************************************************************)
C3_NoDoubleEscape ==
    (Escaped /\ raw.tag = "dict") =>
        \A p \in StrPairs(raw, cv_data) :
            IsPreEscaped(p[1].s) => p[2] = p[1]

(***************************************************************************)
(* C4: the value main has just escaped has the shape of the loaded value   *)
(* at every depth: same keys, same length and order, string for string,    *)
(* scalar for scalar.                                                      *)
(***************************************************************************)
C4_ShapePreserved == Escaped => SameShape(raw, cv_data)

C4_Witness ==
    /\ Escaped
    /\ raw = Dict(("k_%" :> List(<<Str(<<"~", BS>>), Int30>>)) @@ ("note" :> Null))
    /\ cv_data # raw
    /\ DOMAIN cv_data.map = {"k_%", "note"}
    /\ Len(cv_data.map["k_%"].elems) = 2

(***************************************************************************)
(* C5: in the value main has just escaped, every number, boolean and null  *)
(* is the loaded one, and every empty string, empty mapping and empty      *)
(* sequence is unchanged.                                                  *)
(***************************************************************************)
C5_Passthrough ==
    Escaped =>
        /\ \A p \in LeafPairs(raw, cv_data) :
               (IsScalar(p[1]) \/ IsEmptyContainer(p[1]) \/ p[1] = Str(<<>>))
                   => p[2] = p[1]
        /\ (raw = Dict(("age" :> Int30) @@ ("active" :> BoolTrue) @@ ("note" :> Null))
               => cv_data = raw)

C5_Witness ==
    /\ Escaped
    /\ raw = List(<<Dict(("k_%" :> Int30) @@ ("note" :> Null)), Int30>>)
    /\ cv_data = raw

(***************************************************************************)
(* C9 (as stated): in the value main has just escaped, whatever its shape, *)
(* no string holds the sentinel token when no loaded string held it.       *)
(***************************************************************************)
C9_NoSentinelLeft ==
    (Escaped /\ \A t \in AllStrings(raw) : ~Contains(t, BACKSLASH_TOKEN)) =>
        \A t \in AllStrings(cv_data) : ~Contains(t, BACKSLASH_TOKEN)

Line(t) == t \o <<"\n">>

FailureLines ==
    <<Line(FailedHeader), Line(result[1].stdout), Line(result[1].stderr)>>

AfterCompiler ==
    {"check", "print_header", "print_stdout", "print_stderr", "exit", "end"}

(***************************************************************************)
(* C6 (as stated): once the compiler has returned, the file has been       *)
(* written once and the compiler called once and neither changes again; a  *)
(* run that ends after a non-zero status has printed the failure header,   *)
(* the captured standard output and the captured standard error and ends   *)
(* by SystemExit with exit status 1; a run that ends after a zero status   *)
(* has printed nothing and returned.                                       *)
(***************************************************************************)
C6_AsStated ==
    result # <<>> =>
        /\ pc \in AfterCompiler
        /\ writes = 1
        /\ compiler_calls = 1
        /\ tex_file = "written"
        /\ (pc = "end" /\ result[1].returncode # 0) =>
               /\ printed = FailureLines
               /\ outcome = "SystemExit"
               /\ exit_code = 1
        /\ (pc = "end" /\ result[1].returncode = 0) =>
               /\ printed = <<>>
               /\ outcome = "returned"
               /\ exit_code = 0

(***************************************************************************)
(* C6 (amended): once the compiler has returned, the file has been written *)
(* once and the compiler called once and neither changes again; after a    *)
(* non-zero status the print calls completed are the failure header, the   *)
(* captured standard output and the captured standard error, in that       *)
(* order, up to the first print that raises; a run whose three prints      *)
(* completed ends by SystemExit(1), with exit status 1, or 120 when        *)
(* standard output cannot be flushed at exit; a run in which a print       *)
(* raised ends by that uncaught exception with the later lines unprinted   *)
(* and exit status 1, or 120 when a standard stream cannot be flushed;     *)
(* a run that ends after a zero status has printed nothing and returned    *)
(* with status 0.                                                          *)
(***************************************************************************)
C6_CompilerFailurePath ==
    result # <<>> =>
        /\ pc \in AfterCompiler
        /\ writes = 1
        /\ compiler_calls = 1
        /\ tex_file = "written"
        /\ Len(printed) <= 3
        /\ printed = SubSeq(FailureLines, 1, Len(printed))
        /\ result[1].returncode = 0 => printed = <<>>
        /\ (pc = "end" /\ result[1].returncode # 0) =>
               \/ /\ outcome = "SystemExit"
                  /\ printed = FailureLines
                  /\ exit_code \in {1, 120}
               \/ /\ outcome = "uncaught"
                  /\ Len(printed) < 3
                  /\ exit_code \in {1, 120}
        /\ (pc = "end" /\ result[1].returncode = 0) =>
               /\ outcome = "returned"
               /\ exit_code = 0

C6_Witness ==
    /\ pc = "end"
    /\ outcome = "SystemExit"
    /\ result = <<[returncode |-> 2, stdout |-> <<"o", "u", "t">>,
                   stderr |-> <<"e", "r", "r">>]>>
    /\ printed = <<Line(FailedHeader), <<"o", "u", "t", "\n">>,
                   <<"e", "r", "r", "\n">>>>
    /\ exit_code = 1

(***************************************************************************)
(* C8 (as stated): the compiler is called at most once; a run that has     *)
(* returned has written the rendered file; a run that failed before the    *)
(* compiler was called, or that exited by SystemExit(1) after a non-zero   *)
(* compiler status, has not written the rendered file.                     *)
(***************************************************************************)
C8_AsStated ==
    /\ compiler_calls <= 1
    /\ (pc = "end" /\ outcome = "returned") => tex_file = "written"
    /\ (pc = "end" /\ outcome = "uncaught" /\ compiler_calls = 0) =>
           tex_file # "written"
    /\ (pc = "end" /\ outcome = "SystemExit") => tex_file # "written"

(***************************************************************************)
(* C8 (amended): the compiler is called at most once, and a run that has   *)
(* ended either returned after a zero status with the rendered file        *)
(* written; or failed before the compiler was called, with the rendered    *)
(* file untouched, or opened and emptied but not written, by this run; or  *)
(* failed at or after the compiler call (the call raised, or it returned   *)
(* a non-zero status and the run ended by SystemExit(1) or by a print      *)
(* that raised) with the rendered file written by this run.                *)
(***************************************************************************)
C8_NoRetryAndEndStates ==
    /\ compiler_calls <= 1
    /\ pc = "end" =>
           \/ /\ outcome = "returned"
              /\ tex_file = "written"
              /\ compiler_calls = 1
              /\ result # <<>>
              /\ result[1].returncode = 0
           \/ /\ outcome = "uncaught"
              /\ tex_file \in {"not written", "emptied"}
              /\ writes = 0
              /\ compiler_calls = 0
           \/ /\ outcome = "uncaught"
              /\ tex_file = "written"
              /\ compiler_calls = 1
              /\ result = <<>>
           \/ /\ outcome \in {"SystemExit", "uncaught"}
              /\ tex_file = "written"
              /\ compiler_calls = 1
              /\ result # <<>>
              /\ result[1].returncode # 0

C8_Witness ==
    /\ pc = "end"
    /\ outcome = "SystemExit"
    /\ tex_file = "written"
    /\ compiler_calls = 1

StrTriples == {t \in LeafTriples(raw, cv_data, twice) : t[1].tag = "str"}

(***************************************************************************)
(* C10 (as stated): escaping an escaped value again changes every string   *)
(* leaf of a mapping or sequence whose input held a metacharacter or a     *)
(* backslash, and the first escaping leaves every other string leaf as it  *)
(* was.                                                                    *)
(***************************************************************************)
C10_AsStated ==
    (pc = "escaped twice" /\ IsContainer(raw)) =>
        \A t \in StrTriples :
            IF HasMeta(t[1].s) \/ HasBackslash(t[1].s)
            THEN t[3] # t[2]
            ELSE t[2] = t[1]

(***************************************************************************)
(* C10 (amended): the same, the unchanged strings being those that hold no *)
(* metacharacter, no backslash and not the text of the sentinel token.     *)
(***************************************************************************)
C10_NotIdempotent ==
    (pc = "escaped twice" /\ IsContainer(raw)) =>
        \A t \in StrTriples :
            /\ (HasMeta(t[1].s) \/ HasBackslash(t[1].s)) => t[3] # t[2]
            /\ (/\ ~HasMeta(t[1].s)
                /\ ~HasBackslash(t[1].s)
                /\ ~Contains(t[1].s, BACKSLASH_TOKEN)) => t[2] = t[1]

C10_Witness ==
    /\ pc = "escaped twice"
    /\ raw = List(<<Str(<<"%">>), Int30>>)
    /\ cv_data = List(<<Str(<<BS, "%">>), Int30>>)
    /\ twice = List(<<Str(TEXTBACKSLASH \o <<BS, "%">>), Int30>>)

(***************************************************************************)
(* C7 (as stated): whatever the order in which the nine substitutions were *)
(* applied, the text is the one latex_escape returns.                      *)
(***************************************************************************)
C7_AsStated ==
    pc = "returned" => Str(text) = latex_escape(Str(text0))

(***************************************************************************)
(* C7 (amended): when both braces were substituted before the tilde and    *)
(* before the caret, the text is the one latex_escape returns.             *)
(***************************************************************************)
C7_OrderWithBracesFirst ==
    (pc = "returned" /\ braces_first) => Str(text) = latex_escape(Str(text0))

C7_Witness ==
    /\ pc = "returned"
    /\ braces_first
    /\ ~table_order
    /\ text0 = <<"~", "{">>
    /\ text = <<BS, "t", "e", "x", "t", "a", "s", "c", "i", "i", "t", "i", "l",
                "d", "e", "{", "}", BS, "{">>

====
